---- MODULE Spec2Model ----
(***************************************************************************)
(* Model of the placement engine NestingAlgorithm (src/nesting_app.py).    *)
(*                                                                         *)
(* Lengths are integers counted in units of 0.5 cm, the compaction         *)
(* micro-step: the scan step of 3.0 cm is 6 units.  A polygon is a finite  *)
(* set of axis-parallel rectangles <<x1, y1, x2, y2>> with disjoint        *)
(* interiors whose union is the polygon (a rectilinear polygon); a         *)
(* rectangle with x1 = x2 or y1 = y2 is a zero-area sliver.  Rotations by  *)
(* multiples of 90 degrees and mirroring keep such polygons on the integer *)
(* grid, so every operation of the engine is computed exactly.             *)
(* A score s of the code (cm) is kept as the integer 2000 * s.             *)
(***************************************************************************)
EXTENDS Integers, Sequences, FiniteSets, TLC

VARIABLES
    algo,              \* the NestingAlgorithm instance and the frame of its run()
    twin,              \* a second, fresh instance built from the same arguments
    cancel_requested,  \* what cancel_flag() answers when polled
    requested_at       \* << >>, or <<idx, pc>> of algo when cancellation was requested

vars == <<algo, twin, cancel_requested, requested_at>>

-----------------------------------------------------------------------------
(* Bounds of the model *)

MaxPanels == 3
MaxRuns == 2

-----------------------------------------------------------------------------
(* Program constants *)

step == 6
micro == 1
ScoreScale == 1000
Inf == 1000000000

variants == << <<0, 1>>, <<0, -1>>, <<90, 1>>, <<90, -1>>,
               <<180, 1>>, <<180, -1>>, <<270, 1>>, <<270, -1>> >>

-----------------------------------------------------------------------------
(* Geometry kernel: what the engine uses of shapely *)

MinOf(S) == CHOOSE m \in S : \A n \in S : m <= n
MaxOf(S) == CHOOSE m \in S : \A n \in S : m >= n

\* Polygon.bounds: (minx, miny, maxx, maxy)
Bounds(p) == << MinOf({r[1] : r \in p}), MinOf({r[2] : r \in p}),
                MaxOf({r[3] : r \in p}), MaxOf({r[4] : r \in p}) >>

\* Polygon.area (in square units)
Area(p) == LET RECURSIVE Sum(_)
               Sum(S) == IF S = {} THEN 0
                         ELSE LET r == CHOOSE r \in S : TRUE
                              IN (r[3] - r[1]) * (r[4] - r[2]) + Sum(S \ {r})
           IN Sum(p)

\* affinity.translate(p, xoff, yoff)
Translate(p, xoff, yoff) ==
    {<<r[1] + xoff, r[2] + yoff, r[3] + xoff, r[4] + yoff>> : r \in p}

\* A quarter turn counter-clockwise, (x, y) -> (-y, x).
Rotate90(p) == {<<0 - r[4], r[1], 0 - r[2], r[3]>> : r \in p}

\* affinity.rotate(p, angle, origin="centroid") up to the translation that
\* the choice of the centre adds; the engine removes every translation
\* right afterwards (Variant), so the centre does not matter.
Rotate(p, angle) ==
    CASE angle = 0   -> p
      [] angle = 90  -> Rotate90(p)
      [] angle = 180 -> Rotate90(Rotate90(p))
      [] angle = 270 -> Rotate90(Rotate90(Rotate90(p)))

\* affinity.scale(p, xfact=-1.0, origin="centroid"), up to translation.
MirrorX(p) == {<<0 - r[3], r[2], 0 - r[1], r[4]>> : r \in p}

\* a.intersects(b): the closed point sets share a point (contact counts).
Intersects(a, b) ==
    \E r \in a, s \in b :
        /\ r[1] <= s[3] /\ s[1] <= r[3]
        /\ r[2] <= s[4] /\ s[2] <= r[4]

-----------------------------------------------------------------------------
(* Panel sequencer: list.sort(key=(area, max extent), reverse=True) *)

SortKey(x) ==
    LET b == Bounds(x.poly)
    IN << Area(x.poly), MaxOf({b[3] - b[1], b[4] - b[2]}) >>

\* Tuple comparison k1 > k2 of Python.
KeyGreater(k1, k2) == k1[1] > k2[1] \/ (k1[1] = k2[1] /\ k1[2] > k2[2])

\* An ascending sort read backwards: panels of equal key change places.
RECURSIVE SortDescTiesReversed(_)
SortDescTiesReversed(s) ==
    IF s = << >> THEN << >>
    ELSE LET n    == Len(s)
             rest == SortDescTiesReversed(SubSeq(s, 1, n - 1))
             x    == s[n]
             keep == {i \in 1..Len(rest) : KeyGreater(SortKey(rest[i]), SortKey(x))}
             k    == IF keep = {} THEN 0 ELSE MaxOf(keep)
         IN SubSeq(rest, 1, k) \o <<x>> \o SubSeq(rest, k + 1, Len(rest))

\* Stable descending sort: an item goes before the first item of strictly
\* smaller key, i.e. after every item whose key is not smaller.
RECURSIVE SortDesc(_)
SortDesc(s) ==
    IF s = << >> THEN << >>
    ELSE LET n    == Len(s)
             rest == SortDesc(SubSeq(s, 1, n - 1))
             x    == s[n]
             keep == {i \in 1..Len(rest) : ~KeyGreater(SortKey(x), SortKey(rest[i]))}
             k    == IF keep = {} THEN 0 ELSE MaxOf(keep)
         IN SubSeq(rest, 1, k) \o <<x>> \o SubSeq(rest, k + 1, Len(rest))

-----------------------------------------------------------------------------
(* Candidate generator *)

\* Lines 201-206: rotate, mirror, move the bounding box to the origin.
Variant(base_poly, angle, mirror) ==
    LET r == Rotate(base_poly, angle)
        m == IF mirror = -1 THEN MirrorX(r) ELSE r
        b == Bounds(m)
    IN Translate(m, 0 - b[1], 0 - b[2])

\* style.endswith("_A") or style == "Style_A"
LaneA(style) == style \in {"Style_A", "Top_A"}

\* start_y = 0 if lane A else int(fabric_width / 2) (whole cm, here in units)
StartY(style, fabric_width) ==
    IF LaneA(style) THEN 0 ELSE 2 * (fabric_width \div 4)

-----------------------------------------------------------------------------
(* Placement search *)

\* range(a, b) of Python as a sequence
PyRange(a, b) == [i \in 1..(IF b > a THEN b - a ELSE 0) |-> a + i - 1]

\* Lines 220-224: the y positions tried at one x, in scan order.
YCandidates(start_y, fabric_width, h) ==
    LET top == (fabric_width - h) \div step
        s0  == start_y \div step
        yy  == IF start_y > 0
               THEN PyRange(s0, top + 1) \o PyRange(0, s0)
               ELSE PyRange(0, top + 1)
    IN [k \in 1..Len(yy) |-> yy[k] * step]

\* x_range = int(math.ceil((max_length - w) / step_x)), for w <= max_length
XRange(max_length, w) == (max_length - w + step - 1) \div step

\* Conflict with the left edge of pb where its right edge is meant.
ConflictBoxTypo(cp, placed_polys, placed_bounds) ==
    LET cb == Bounds(cp)
    IN \E i \in 1..Len(placed_bounds) :
          LET pb == placed_bounds[i]
          IN /\ ~(cb[3] <= pb[1] \/ cb[1] >= pb[1] \/ cb[4] <= pb[2] \/ cb[2] >= pb[4])
             /\ Intersects(cp, placed_polys[i])

\* Lines 229-234 (and 243-247, 253-257): bounding boxes first, then polygons.
Conflict(cp, placed_polys, placed_bounds) ==
    LET cb == Bounds(cp)
    IN \E i \in 1..Len(placed_bounds) :
          LET pb == placed_bounds[i]
          IN /\ ~(cb[3] <= pb[1] \/ cb[1] >= pb[3] \/ cb[4] <= pb[2] \/ cb[2] >= pb[4])
             /\ Intersects(cp, placed_polys[i])

\* GravityPass that reports a move only when the shift down succeeded.
GravityPassDownOnly(cp, placed_polys, placed_bounds) ==
    LET t1  == Translate(cp, 0, 0 - micro)
        ok1 == Bounds(t1)[2] >= 0 /\ ~Conflict(t1, placed_polys, placed_bounds)
        cp1 == IF ok1 THEN t1 ELSE cp
        t2  == Translate(cp1, 0 - micro, 0)
        ok2 == Bounds(t2)[1] >= 0 /\ ~Conflict(t2, placed_polys, placed_bounds)
        cp2 == IF ok2 THEN t2 ELSE cp1
    IN << cp2, ok1 >>

\* GravityPass with the floor of lines 242 and 252 at -1.5 cm instead of 0.
GravityPassLowFloor(cp, placed_polys, placed_bounds) ==
    LET t1  == Translate(cp, 0, 0 - micro)
        ok1 == Bounds(t1)[2] >= 0 - 3 /\ ~Conflict(t1, placed_polys, placed_bounds)
        cp1 == IF ok1 THEN t1 ELSE cp
        t2  == Translate(cp1, 0 - micro, 0)
        ok2 == Bounds(t2)[1] >= 0 - 3 /\ ~Conflict(t2, placed_polys, placed_bounds)
        cp2 == IF ok2 THEN t2 ELSE cp1
    IN << cp2, ok1 \/ ok2 >>

\* One pass of the gravity loop, lines 239-259: <<cp, moved>>.
GravityPass(cp, placed_polys, placed_bounds) ==
    LET t1  == Translate(cp, 0, 0 - micro)
        ok1 == Bounds(t1)[2] >= 0 /\ ~Conflict(t1, placed_polys, placed_bounds)
        cp1 == IF ok1 THEN t1 ELSE cp
        t2  == Translate(cp1, 0 - micro, 0)
        ok2 == Bounds(t2)[1] >= 0 /\ ~Conflict(t2, placed_polys, placed_bounds)
        cp2 == IF ok2 THEN t2 ELSE cp1
    IN << cp2, ok1 \/ ok2 >>

\* Lines 237-259: while moved.
RECURSIVE Gravity(_, _, _)
Gravity(cp, placed_polys, placed_bounds) ==
    LET res == GravityPass(cp, placed_polys, placed_bounds)
    IN IF res[2] THEN Gravity(res[1], placed_polys, placed_bounds) ELSE cp

\* Lines 237-259: the candidate at the start of every pass of the loop; the
\* number of passes is the length, the last pass being the one that moves
\* nothing.
RECURSIVE GravityTrace(_, _, _)
GravityTrace(cp, placed_polys, placed_bounds) ==
    LET res == GravityPass(cp, placed_polys, placed_bounds)
    IN IF res[2] THEN <<cp>> \o GravityTrace(res[1], placed_polys, placed_bounds)
       ELSE <<cp>>

\* sc = cp.bounds[2] + cp.bounds[1] * 0.001, times 2000
Score(cp) == LET b == Bounds(cp) IN ScoreScale * b[3] + b[2]

\* Lines 215-218: the xi the scan reaches; it breaks at the first x > best_score.
ScannedXi(max_length, w, best_score) ==
    {xi \in 0..XRange(max_length, w) : ~(ScoreScale * (xi * step) > best_score)}

\* Lines 215-235, 264-267: the first position, x outer and y inner, that
\* conflicts with no accepted placement; << >> when there is none.
FirstFree(vpoly, e, start_y, best_score) ==
    LET b    == Bounds(vpoly)
        w    == b[3] - b[1]
        h    == b[4] - b[2]
        yc   == YCandidates(start_y, e.fabric_width, h)
        Free(xi) == {k \in 1..Len(yc) :
                        ~Conflict(Translate(vpoly, xi * step, yc[k]),
                                  e.placed_polys, e.placed_bounds)}
        xs   == {xi \in ScannedXi(e.max_length, w, best_score) : Free(xi) # {}}
    IN IF xs = {} THEN << >>
       ELSE LET xi == MinOf(xs)
            IN << xi * step, yc[MinOf(Free(xi))] >>

-----------------------------------------------------------------------------
(* Run controller: NestingAlgorithm as a record, one step per operator *)

\* __init__, lines 163-168
NewAlgo(patterns, fabric_width, max_length, progress_cb) ==
    [ patterns       |-> patterns,
      fabric_width   |-> fabric_width,
      max_length     |-> max_length,
      placed_items   |-> << >>,
      unplaced_items |-> << >>,
      progress_cb    |-> progress_cb,
      pc             |-> "idle",
      placed_polys   |-> << >>,
      placed_bounds  |-> << >>,
      total          |-> 0,
      idx            |-> 0,
      vi             |-> 1,
      best_score     |-> Inf,
      best_placement |-> << >>,
      calls          |-> << >>,
      runs           |-> 0 ]

\* Lines 171-185: entry of run()
DoSort(e) ==
    [e EXCEPT !.patterns      = SortDesc(e.patterns),
              !.placed_polys  = << >>,
              !.placed_bounds = << >>,
              !.total         = Len(e.patterns),
              !.idx           = 0,
              !.calls         = << >>,
              !.runs          = e.runs + 1,
              !.pc            = "loop"]

\* Lines 191-195: the panel at idx is taken up
DoStartPanel(e) ==
    [e EXCEPT !.best_score     = Inf,
              !.best_placement = << >>,
              !.vi             = 1,
              !.pc             = "variants"]

\* DoTryVariant without the size filter of lines 209-210.
DoTryVariantNoSizeCheck(e) ==
    LET item    == e.patterns[e.idx + 1]
        start_y == StartY(item.style, e.fabric_width)
        vpoly   == Variant(item.poly, variants[e.vi][1], variants[e.vi][2])
        pos     == FirstFree(vpoly, e, start_y, e.best_score)
        cp      == Gravity(Translate(vpoly, pos[1], pos[2]),
                           e.placed_polys, e.placed_bounds)
        better  == pos # << >> /\ Score(cp) < e.best_score
    IN [e EXCEPT !.best_score     = IF better THEN Score(cp) ELSE @,
                 !.best_placement = IF better THEN <<cp>> ELSE @,
                 !.vi             = @ + 1,
                 !.pc             = IF e.vi = Len(variants) THEN "record" ELSE @]

\* DoTryVariant with sc <= best_score where sc < best_score is meant.
DoTryVariantLastWins(e) ==
    LET item    == e.patterns[e.idx + 1]
        start_y == StartY(item.style, e.fabric_width)
        vpoly   == Variant(item.poly, variants[e.vi][1], variants[e.vi][2])
        b       == Bounds(vpoly)
        w       == b[3] - b[1]
        h       == b[4] - b[2]
        pos     == FirstFree(vpoly, e, start_y, e.best_score)
        cp      == Gravity(Translate(vpoly, pos[1], pos[2]),
                           e.placed_polys, e.placed_bounds)
        better  == /\ ~(w > e.max_length \/ h > e.fabric_width)
                   /\ pos # << >>
                   /\ Score(cp) <= e.best_score
    IN [e EXCEPT !.best_score     = IF better THEN Score(cp) ELSE @,
                 !.best_placement = IF better THEN <<cp>> ELSE @,
                 !.vi             = @ + 1,
                 !.pc             = IF e.vi = Len(variants) THEN "record" ELSE @]

\* Lines 201-267: one iteration of the loop over variants
DoTryVariant(e) ==
    LET item    == e.patterns[e.idx + 1]
        start_y == StartY(item.style, e.fabric_width)
        vpoly   == Variant(item.poly, variants[e.vi][1], variants[e.vi][2])
        b       == Bounds(vpoly)
        w       == b[3] - b[1]
        h       == b[4] - b[2]
        pos     == FirstFree(vpoly, e, start_y, e.best_score)
        cp      == Gravity(Translate(vpoly, pos[1], pos[2]),
                           e.placed_polys, e.placed_bounds)
        better  == /\ ~(w > e.max_length \/ h > e.fabric_width)
                   /\ pos # << >>
                   /\ Score(cp) < e.best_score
    IN [e EXCEPT !.best_score     = IF better THEN Score(cp) ELSE @,
                 !.best_placement = IF better THEN <<cp>> ELSE @,
                 !.vi             = @ + 1,
                 !.pc             = IF e.vi = Len(variants) THEN "record" ELSE @]

\* Lines 198-199: break out of the loop over variants
DoBreakVariants(e) == [e EXCEPT !.pc = "record"]

\* DoRecord with the else of line 273 lost: every panel goes to unplaced.
DoRecordNoElse(e) ==
    LET item   == e.patterns[e.idx + 1]
        placed == IF e.best_placement # << >>
                  THEN Append(e.placed_items,
                              [style |-> item.style, id |-> item.id,
                               poly |-> e.best_placement[1]])
                  ELSE e.placed_items
    IN [e EXCEPT !.placed_items   = placed,
                 !.placed_polys   = IF e.best_placement # << >>
                                    THEN Append(@, e.best_placement[1]) ELSE @,
                 !.placed_bounds  = IF e.best_placement # << >>
                                    THEN Append(@, Bounds(e.best_placement[1])) ELSE @,
                 !.unplaced_items = Append(@, item),
                 !.calls          = IF e.progress_cb
                                    THEN Append(@, [placed |-> placed,
                                                    count |-> e.idx + 1,
                                                    total |-> e.total])
                                    ELSE @,
                 !.idx            = @ + 1,
                 !.pc             = "loop"]

\* DoRecord reporting idx where idx + 1 is meant.
DoRecordCountIdx(e) ==
    LET item   == e.patterns[e.idx + 1]
        placed == IF e.best_placement # << >>
                  THEN Append(e.placed_items,
                              [style |-> item.style, id |-> item.id,
                               poly |-> e.best_placement[1]])
                  ELSE e.placed_items
    IN [e EXCEPT !.placed_items   = placed,
                 !.placed_polys   = IF e.best_placement # << >>
                                    THEN Append(@, e.best_placement[1]) ELSE @,
                 !.placed_bounds  = IF e.best_placement # << >>
                                    THEN Append(@, Bounds(e.best_placement[1])) ELSE @,
                 !.unplaced_items = IF e.best_placement # << >>
                                    THEN @ ELSE Append(@, item),
                 !.calls          = IF e.progress_cb
                                    THEN Append(@, [placed |-> placed,
                                                    count |-> e.idx,
                                                    total |-> e.total])
                                    ELSE @,
                 !.idx            = @ + 1,
                 !.pc             = "loop"]

\* DoRecord that puts the new placement at the head of placed_items.
DoRecordAtHead(e) ==
    LET item   == e.patterns[e.idx + 1]
        placed == IF e.best_placement # << >>
                  THEN << [style |-> item.style, id |-> item.id,
                           poly |-> e.best_placement[1]] >> \o e.placed_items
                  ELSE e.placed_items
    IN [e EXCEPT !.placed_items   = placed,
                 !.placed_polys   = IF e.best_placement # << >>
                                    THEN Append(@, e.best_placement[1]) ELSE @,
                 !.placed_bounds  = IF e.best_placement # << >>
                                    THEN Append(@, Bounds(e.best_placement[1])) ELSE @,
                 !.unplaced_items = IF e.best_placement # << >>
                                    THEN @ ELSE Append(@, item),
                 !.calls          = IF e.progress_cb
                                    THEN Append(@, [placed |-> placed,
                                                    count |-> e.idx + 1,
                                                    total |-> e.total])
                                    ELSE @,
                 !.idx            = @ + 1,
                 !.pc             = "loop"]

\* Lines 269-277: record the panel, report progress, next panel
DoRecord(e) ==
    LET item   == e.patterns[e.idx + 1]
        placed == IF e.best_placement # << >>
                  THEN Append(e.placed_items,
                              [style |-> item.style, id |-> item.id,
                               poly |-> e.best_placement[1]])
                  ELSE e.placed_items
    IN [e EXCEPT !.placed_items   = placed,
                 !.placed_polys   = IF e.best_placement # << >>
                                    THEN Append(@, e.best_placement[1]) ELSE @,
                 !.placed_bounds  = IF e.best_placement # << >>
                                    THEN Append(@, Bounds(e.best_placement[1])) ELSE @,
                 !.unplaced_items = IF e.best_placement # << >>
                                    THEN @ ELSE Append(@, item),
                 !.calls          = IF e.progress_cb
                                    THEN Append(@, [placed |-> placed,
                                                    count |-> e.idx + 1,
                                                    total |-> e.total])
                                    ELSE @,
                 !.idx            = @ + 1,
                 !.pc             = "loop"]

\* Line 279 (after the loop ended or line 189 broke out of it)
DoReturn(e) == [e EXCEPT !.pc = "done"]

-----------------------------------------------------------------------------
(* Inputs *)

\* 11 cm x 12 cm with the corner [8.5, 11] x [8.5, 12] cut out
WallPoly == { <<0, 0, 17, 24>>, <<17, 0, 22, 17>> }
\* 2 cm x 2 cm
SquarePoly == { <<0, 0, 4, 4>> }
\* 12.5 cm x 3 cm
BarPoly == { <<0, 0, 25, 6>> }
\* 1 cm x 10 cm
TallPoly == { <<0, 0, 2, 20>> }
\* 4 cm long, zero area
LinePoly == { <<0, 0, 8, 0>> }
\* 13 cm x 1 cm
LongPoly == { <<0, 0, 26, 2>> }

Kinds == { [style |-> "Style_A", poly |-> WallPoly],
           [style |-> "Top_A",   poly |-> SquarePoly],
           [style |-> "Style_A", poly |-> BarPoly],
           [style |-> "Style_B", poly |-> TallPoly],
           [style |-> "Style_B", poly |-> LinePoly],
           [style |-> "Top_A",   poly |-> LongPoly] }

\* The caller's list: one entry per physical copy; id is the entry's position.
MakePatterns(f) ==
    [i \in 1..Len(f) |-> [id |-> i, style |-> f[i].style, poly |-> f[i].poly]]

\* Five equal squares
FiveSquares == [i \in 1..5 |-> [style |-> "Top_A", poly |-> SquarePoly]]

PanelLists ==
    {MakePatterns(f) : f \in UNION {[1..n -> Kinds] : n \in 0..MaxPanels}}
        \cup {MakePatterns(FiveSquares)}

\* <<fabric_width, max_length>>: 12 cm x 12.5 cm
Sheets == { <<24, 25>> }

\* 4 cm x 4 cm
Square4Poly == { <<0, 0, 8, 8>> }
\* 10 cm x 1.5 cm
SlabPoly == { <<0, 0, 20, 3>> }
\* 1 cm x 6.5 cm post with a 6 cm x 1 cm arm at its top
GammaPoly == { <<0, 0, 2, 11>>, <<0, 11, 12, 13>> }
\* 4 cm x 1 cm
FlatPoly == { <<0, 0, 8, 2>> }

\* Further calls <<panel list, <<fabric_width, max_length>>>>: one 4 x 4
\* square on 10 x 100; two 4 x 4 squares on 4 x 100; a flat strip that fits
\* under the arm of the post in both orientations, on 9.5 x 10; panels of
\* equal area and different extent on 12 x 12.5.
Scenarios ==
    { << MakePatterns(<< [style |-> "Style_B", poly |-> Square4Poly] >>),
         <<20, 200>> >>,
      << MakePatterns(<< [style |-> "Style_A", poly |-> Square4Poly],
                         [style |-> "Style_A", poly |-> Square4Poly] >>),
         <<8, 200>> >>,
      << MakePatterns(<< [style |-> "Style_A", poly |-> FlatPoly],
                         [style |-> "Style_A", poly |-> GammaPoly],
                         [style |-> "Style_A", poly |-> SlabPoly] >>),
         <<19, 20>> >>,
      << MakePatterns(<< [style |-> "Top_A", poly |-> SquarePoly],
                         [style |-> "Top_A", poly |-> FlatPoly],
                         [style |-> "Style_B", poly |-> SquarePoly] >>),
         <<24, 25>> >> }

\* The arguments of the constructor: <<patterns, <<fabric_width, max_length>>>>
Inputs == (PanelLists \X Sheets) \cup Scenarios

-----------------------------------------------------------------------------
(* Steps of run() as relations between an instance and its successor *)

\* EnterRun with a sort that leaves panels of equal key in any order.
EnterRunAnyTieOrder(e, ep) ==
    LET srt == DoSort(e)
        n   == Len(srt.patterns)
    IN \E f \in [1..n -> 1..n] :
          /\ \A i, j \in 1..n : i # j => f[i] # f[j]
          /\ \A i \in 1..n : SortKey(srt.patterns[f[i]]) = SortKey(srt.patterns[i])
          /\ ep = [srt EXCEPT !.patterns = [i \in 1..n |-> srt.patterns[f[i]]]]

\* run() is entered: lines 171-185
EnterRun(e, ep) == ep = DoSort(e)

\* line 188 polled false, lines 191-195
TakePanel(e, ep) == e.idx < e.total /\ ep = DoStartPanel(e)

\* line 198 polled false, lines 201-267
VariantStep(e, ep) == ep = DoTryVariant(e)

\* lines 269-277
RecordStep(e, ep) == ep = DoRecord(e)

\* the loop is exhausted; line 279
LeaveRun(e, ep) == e.idx = e.total /\ ep = DoReturn(e)

-----------------------------------------------------------------------------
(* One run of a fresh instance, with cancellation *)

Init ==
    /\ \E in \in Inputs, cb \in BOOLEAN :
          /\ algo = NewAlgo(in[1], in[2][1], in[2][2], cb)
          /\ twin = NewAlgo(in[1], in[2][1], in[2][2], cb)
    /\ cancel_requested = FALSE
    /\ requested_at = << >>

RunSort ==
    /\ algo.pc = "idle"
    /\ EnterRun(algo, algo')
    /\ UNCHANGED <<twin, cancel_requested, requested_at>>

\* StartPanel without the poll of line 188.
StartPanelNoPoll ==
    /\ algo.pc = "loop"
    /\ TakePanel(algo, algo')
    /\ UNCHANGED <<twin, cancel_requested, requested_at>>

StartPanel ==
    /\ algo.pc = "loop"
    /\ ~cancel_requested
    /\ TakePanel(algo, algo')
    /\ UNCHANGED <<twin, cancel_requested, requested_at>>

TryVariant ==
    /\ algo.pc = "variants"
    /\ ~cancel_requested
    /\ VariantStep(algo, algo')
    /\ UNCHANGED <<twin, cancel_requested, requested_at>>

\* line 198 polled true: break
BreakVariants ==
    /\ algo.pc = "variants"
    /\ cancel_requested
    /\ algo' = DoBreakVariants(algo)
    /\ UNCHANGED <<twin, cancel_requested, requested_at>>

Record ==
    /\ algo.pc = "record"
    /\ RecordStep(algo, algo')
    /\ UNCHANGED <<twin, cancel_requested, requested_at>>

Return ==
    /\ algo.pc = "loop"
    /\ ~cancel_requested
    /\ LeaveRun(algo, algo')
    /\ UNCHANGED <<twin, cancel_requested, requested_at>>

\* line 188 polled true: break, then line 279
BreakLoop ==
    /\ algo.pc = "loop"
    /\ cancel_requested
    /\ algo' = DoReturn(algo)
    /\ UNCHANGED <<twin, cancel_requested, requested_at>>

\* The host sets the flag that cancel_flag reads (line 673) while run() is
\* on the stack; the flag stays set until the run is over.
RequestCancel ==
    /\ algo.pc \in {"loop", "variants", "record"}
    /\ ~cancel_requested
    /\ cancel_requested' = TRUE
    /\ requested_at' = <<algo.idx, algo.pc>>
    /\ UNCHANGED <<algo, twin>>

Next ==
    \/ RunSort
    \/ StartPanel
    \/ TryVariant
    \/ BreakVariants
    \/ Record
    \/ Return
    \/ BreakLoop
    \/ RequestCancel

Spec == Init /\ [][Next]_vars

-----------------------------------------------------------------------------
(* Uncancelled runs: algo may be run again, twin is run once *)

InitTwice ==
    /\ \E in \in Inputs, cb \in BOOLEAN, cb2 \in BOOLEAN :
          /\ algo = NewAlgo(in[1], in[2][1], in[2][2], cb)
          /\ twin = NewAlgo(in[1], in[2][1], in[2][2], cb2)
    /\ cancel_requested = FALSE
    /\ requested_at = << >>

\* run() is called again on the instance that has returned
RunAgain ==
    /\ algo.pc = "done"
    /\ twin.pc = "done"
    /\ algo.runs < MaxRuns
    /\ EnterRun(algo, algo')
    /\ UNCHANGED <<twin, cancel_requested, requested_at>>

\* The two instances have no variable in common, so their steps commute:
\* the twin is run between the first and the second run of algo.
TwinSort ==
    /\ algo.pc = "done"
    /\ twin.pc = "idle"
    /\ EnterRun(twin, twin')
    /\ UNCHANGED <<algo, cancel_requested, requested_at>>

TwinStartPanel ==
    /\ twin.pc = "loop"
    /\ TakePanel(twin, twin')
    /\ UNCHANGED <<algo, cancel_requested, requested_at>>

TwinTryVariant ==
    /\ twin.pc = "variants"
    /\ VariantStep(twin, twin')
    /\ UNCHANGED <<algo, cancel_requested, requested_at>>

TwinRecord ==
    /\ twin.pc = "record"
    /\ RecordStep(twin, twin')
    /\ UNCHANGED <<algo, cancel_requested, requested_at>>

TwinReturn ==
    /\ twin.pc = "loop"
    /\ LeaveRun(twin, twin')
    /\ UNCHANGED <<algo, cancel_requested, requested_at>>

NextTwice ==
    \/ RunSort
    \/ StartPanel
    \/ TryVariant
    \/ Record
    \/ Return
    \/ RunAgain
    \/ TwinSort
    \/ TwinStartPanel
    \/ TwinTryVariant
    \/ TwinRecord
    \/ TwinReturn

SpecTwice == InitTwice /\ [][NextTwice]_vars

-----------------------------------------------------------------------------
(* The placement loop written out in the page script, lines 698-792, held
   against a run of NestingAlgorithm.run on the same input.  algo is the
   instance whose run() is called, with cancellation; twin is the instance
   the page script builds (line 698, no callback), its placed_items and
   unplaced_items standing for the script's current_placed and
   current_unplaced.  The script's loop is replayed after the run, with the
   cancel flag set at the same moment of the loop's progress: requested_at
   holds the number of panels recorded and the point of the iteration at
   which the request fell. *)

InitInline ==
    /\ \E in \in Inputs, cb \in BOOLEAN :
          /\ algo = NewAlgo(in[1], in[2][1], in[2][2], cb)
          /\ twin = NewAlgo(in[1], in[2][1], in[2][2], FALSE)
    /\ cancel_requested = FALSE
    /\ requested_at = << >>

\* Line 717 reads the flag as set: the request fell before this poll, that
\* is before an earlier panel was recorded, or at the head of the loop for
\* this panel.
InlineSeesCancel(e) ==
    /\ requested_at # << >>
    /\ \/ requested_at[1] < e.idx
       \/ requested_at[1] = e.idx /\ requested_at[2] = "loop"

\* Lines 726-785: the loop over the orientations, which polls nothing
RECURSIVE SearchAll(_)
SearchAll(e) == IF e.pc = "variants" THEN SearchAll(DoTryVariant(e)) ELSE e

\* Lines 720-792: one iteration of the script's loop
DoInlinePanel(e) == DoRecord(SearchAll(DoStartPanel(e)))

\* Lines 701-713
InlineSort ==
    /\ algo.pc = "done"
    /\ twin.pc = "idle"
    /\ twin' = DoSort(twin)
    /\ UNCHANGED <<algo, cancel_requested, requested_at>>

\* InlinePanel without the poll of line 717.
InlinePanelNoPoll ==
    /\ twin.pc = "loop"
    /\ twin.idx < twin.total
    /\ twin' = DoInlinePanel(twin)
    /\ UNCHANGED <<algo, cancel_requested, requested_at>>

\* Line 717 polled false, lines 720-792
InlinePanel ==
    /\ twin.pc = "loop"
    /\ twin.idx < twin.total
    /\ ~InlineSeesCancel(twin)
    /\ twin' = DoInlinePanel(twin)
    /\ UNCHANGED <<algo, cancel_requested, requested_at>>

\* Line 717 polled true: break
InlineBreak ==
    /\ twin.pc = "loop"
    /\ twin.idx < twin.total
    /\ InlineSeesCancel(twin)
    /\ twin' = DoReturn(twin)
    /\ UNCHANGED <<algo, cancel_requested, requested_at>>

\* The loop of line 716 is exhausted
InlineEnd ==
    /\ twin.pc = "loop"
    /\ twin.idx = twin.total
    /\ twin' = DoReturn(twin)
    /\ UNCHANGED <<algo, cancel_requested, requested_at>>

NextInline ==
    \/ RunSort
    \/ StartPanel
    \/ TryVariant
    \/ BreakVariants
    \/ Record
    \/ Return
    \/ BreakLoop
    \/ RequestCancel
    \/ InlineSort
    \/ InlinePanel
    \/ InlineBreak
    \/ InlineEnd

SpecInline == InitInline /\ [][NextInline]_vars

-----------------------------------------------------------------------------
(* Shorthands for the properties *)

\* The panel run() is working on (between lines 187 and 277)
Item(e) == e.patterns[e.idx + 1]

\* Number of panels recorded so far
Recorded(e) == Len(e.placed_items) + Len(e.unplaced_items)

\* Positions of id in a list of items
Places(items, id) == {i \in 1..Len(items) : items[i].id = id}

\* The bounding box of every item lies in the sheet of e
InSheet(items, e) ==
    \A i \in 1..Len(items) :
        LET b == Bounds(items[i].poly)
        IN 0 <= b[1] /\ b[3] <= e.max_length /\ 0 <= b[2] /\ b[4] <= e.fabric_width

\* The interiors of a and b share a point (positive common area).
InteriorsMeet(a, b) ==
    \E r \in a, s \in b :
        /\ MaxOf({r[1], s[1]}) < MinOf({r[3], s[3]})
        /\ MaxOf({r[2], s[2]}) < MinOf({r[4], s[4]})

\* No two items share interior area
NoOverlapIn(items) ==
    \A i, j \in 1..Len(items) :
        i < j => ~InteriorsMeet(items[i].poly, items[j].poly)

\* Every orientation of the panel is larger than the sheet of e
Oversized(item, e) ==
    \A v \in 1..Len(variants) :
        LET b == Bounds(Variant(item.poly, variants[v][1], variants[v][2]))
        IN b[3] - b[1] > e.max_length \/ b[4] - b[2] > e.fabric_width

\* Some orientation of the panel passes the size filter and has a scanned
\* position free of conflict on the sheet of e as it is
Feasible(item, e) ==
    \E v \in 1..Len(variants) :
        LET vpoly == Variant(item.poly, variants[v][1], variants[v][2])
            b     == Bounds(vpoly)
        IN /\ ~(b[3] - b[1] > e.max_length \/ b[4] - b[2] > e.fabric_width)
           /\ FirstFree(vpoly, e, StartY(item.style, e.fabric_width), Inf) # << >>

TypeOK ==
    /\ algo.pc \in {"idle", "loop", "variants", "record", "done"}
    /\ twin.pc \in {"idle", "loop", "variants", "record", "done"}
    /\ cancel_requested \in BOOLEAN

-----------------------------------------------------------------------------
(* Properties *)

\* C1: in every state of a run, and in every list handed to the progress
\* callback, no two placed polygons share interior area.
C1_NoOverlap ==
    /\ NoOverlapIn(algo.placed_items)
    /\ \A k \in 1..Len(algo.calls) : NoOverlapIn(algo.calls[k].placed)

\* A run has returned with two placed polygons whose bounding boxes share
\* interior area.
C1_Witness ==
    /\ algo.pc = "done"
    /\ \E i, j \in 1..Len(algo.placed_items) :
          /\ i < j
          /\ InteriorsMeet({Bounds(algo.placed_items[i].poly)},
                           {Bounds(algo.placed_items[j].poly)})

\* C2 as claimed: in every state of a run the bounding box of every placed
\* entry lies inside the sheet.
C2_PlacedInSheet == InSheet(algo.placed_items, algo)

\* C3: a run that was never cancelled returns with every input entry in
\* exactly one of placed and unplaced.
C3_Partition ==
    (algo.pc = "done" /\ ~cancel_requested) =>
        /\ Recorded(algo) = Len(algo.patterns)
        /\ \A id \in 1..Len(algo.patterns) :
              Cardinality(Places(algo.placed_items, id))
                + Cardinality(Places(algo.unplaced_items, id)) = 1

\* An uncancelled run has returned with panels in both lists.
C3_Witness ==
    /\ algo.pc = "done" /\ ~cancel_requested
    /\ algo.placed_items # << >> /\ algo.unplaced_items # << >>

\* The ids recorded by e are those of the first n panels in processing order
FirstRecorded(e, n) ==
    /\ Recorded(e) = n
    /\ \A i \in 1..Len(e.patterns) :
          (Places(e.placed_items, e.patterns[i].id)
             \cup Places(e.unplaced_items, e.patterns[i].id) # {}) <=> i <= n

\* C4 as claimed: a run cancelled at any moment after k panels were recorded
\* and before the next one is recorded returns with exactly those k panels,
\* after exactly k progress calls.
C4_TruncatesAtRequest ==
    (algo.pc = "done" /\ requested_at # << >>) =>
        /\ FirstRecorded(algo, requested_at[1])
        /\ algo.progress_cb => Len(algo.calls) = requested_at[1]

\* C4 amended: a request that arrives while the loop is between two panels
\* (k recorded, the search of the next not begun) gives exactly k panels and
\* k progress calls; a request that arrives once the search of the next panel
\* has begun gives k + 1 panels and k + 1 calls.
C4_TruncatesAtPoll ==
    (algo.pc = "done" /\ requested_at # << >>) =>
        LET n == IF requested_at[2] = "loop"
                 THEN requested_at[1] ELSE requested_at[1] + 1
        IN /\ FirstRecorded(algo, n)
           /\ algo.progress_cb => Len(algo.calls) = n

\* A run over five panels, cancelled between the first and the second, has
\* returned with one panel recorded.
C4_Witness ==
    /\ algo.pc = "done"
    /\ algo.total = 5
    /\ requested_at = <<1, "loop">>
    /\ Recorded(algo) = 1

\* C5: the i-th progress call has count i and total the number of input
\* panels, and between panels the number of calls made is the number of
\* panels recorded.
C5_ProgressCounts ==
    algo.progress_cb =>
        /\ \A i \in 1..Len(algo.calls) :
              algo.calls[i].count = i /\ algo.calls[i].total = Len(algo.patterns)
        /\ algo.pc \in {"loop", "done"} => Len(algo.calls) = Recorded(algo)

\* A run with a callback has returned after three calls, with panels in both
\* lists.
C5_Witness ==
    /\ algo.pc = "done" /\ algo.progress_cb
    /\ Len(algo.calls) = 3
    /\ algo.placed_items # << >> /\ algo.unplaced_items # << >>

C7_ZeroAreaNeverPlaced ==
    \A i \in 1..Len(algo.placed_items) : Area(algo.placed_items[i].poly) > 0

\* C8: while an oversized panel is processed the placed list and the sheet
\* stay as they are, and when the panel is recorded it is appended to
\* unplaced and the loop goes on to the next index.
C8_OversizedUnplaced ==
    [][ (algo.pc \in {"variants", "record"} /\ Oversized(Item(algo), algo)) =>
          /\ algo'.placed_items = algo.placed_items
          /\ algo'.placed_polys = algo.placed_polys
          /\ algo'.placed_bounds = algo.placed_bounds
          /\ algo'.best_placement = << >>
          /\ algo'.pc \in {"variants", "record", "loop"}
          /\ algo'.pc = "loop" =>
                /\ algo'.unplaced_items = Append(algo.unplaced_items, Item(algo))
                /\ algo'.idx = algo.idx + 1 ]_vars

\* A run has returned with an oversized panel in unplaced and a panel that
\* was processed after it in placed.
C8_Witness ==
    /\ algo.pc = "done"
    /\ \E i, j \in 1..Len(algo.patterns) :
          /\ i < j
          /\ Oversized(algo.patterns[i], algo)
          /\ Places(algo.unplaced_items, algo.patterns[i].id) # {}
          /\ Places(algo.placed_items, algo.patterns[j].id) # {}

\* C9 as claimed: a panel about to be recorded as unplaced has no orientation
\* with a free scanned position on the sheet as it is.
C9_UnplacedInfeasible ==
    (algo.pc = "record" /\ algo.best_placement = << >>) =>
        ~Feasible(Item(algo), algo)

\* C10 as claimed: whenever the instance has returned, however many times it
\* was run, its lists hold every input entry once and equal those of a fresh
\* instance.
C10_NoCarryOver ==
    (algo.pc = "done" /\ twin.pc = "done") =>
        /\ algo.placed_items = twin.placed_items
        /\ algo.unplaced_items = twin.unplaced_items
        /\ \A id \in 1..Len(algo.patterns) :
              Cardinality(Places(algo.placed_items, id))
                + Cardinality(Places(algo.unplaced_items, id)) = 1

\* The orientation v of the panel, normalised (lines 201-206)
VariantOf(item, v) == Variant(item.poly, variants[v][1], variants[v][2])

\* Bounding-box width and height of a polygon
WidthOf(p) == Bounds(p)[3] - Bounds(p)[1]
HeightOf(p) == Bounds(p)[4] - Bounds(p)[2]

\* The orientations of the panel that pass the size filter of line 209
Fitting(item, e) ==
    {v \in 1..Len(variants) :
        ~(WidthOf(VariantOf(item, v)) > e.max_length
            \/ HeightOf(VariantOf(item, v)) > e.fabric_width)}

\* All eight orientations of the panel last recorded were tried
SearchedAll(e) == e.vi > Len(variants)

\* C11: a panel with a fitting orientation whose search ran on the empty
\* sheet is placed with its bounding box at (0,0), in the first of its
\* fitting orientations of least width, and the used length is that width.
C11_FirstAtOrigin ==
    (/\ algo.pc \in {"loop", "done"} /\ algo.idx >= 1 /\ SearchedAll(algo)
     /\ \A i \in 1..(algo.idx - 1) :
           Places(algo.unplaced_items, algo.patterns[i].id) # {}
     /\ Fitting(algo.patterns[algo.idx], algo) # {}) =>
        LET item == algo.patterns[algo.idx]
            fit  == Fitting(item, algo)
            best == MinOf({v \in fit : \A u \in fit :
                              WidthOf(VariantOf(item, v)) <= WidthOf(VariantOf(item, u))})
        IN /\ Len(algo.placed_items) = 1
           /\ algo.placed_items[1].id = item.id
           /\ algo.placed_items[1].poly = VariantOf(item, best)
           /\ Bounds(algo.placed_items[1].poly)[1] = 0
           /\ Bounds(algo.placed_items[1].poly)[2] = 0
           /\ Bounds(algo.placed_items[1].poly)[3] = WidthOf(VariantOf(item, best))

\* The run over one 4 x 4 square of lane B on the 10 x 100 sheet has
\* returned with the square at (0,0)-(4,4).
C11_Witness ==
    /\ algo.pc = "done" /\ SearchedAll(algo)
    /\ algo.fabric_width = 20 /\ algo.max_length = 200
    /\ Len(algo.placed_items) = 1
    /\ ~LaneA(algo.placed_items[1].style)
    /\ algo.placed_items[1].poly = { <<0, 0, 8, 8>> }

\* The larger side of the bounding box of a polygon
MaxExtent(p) == IF WidthOf(p) >= HeightOf(p) THEN WidthOf(p) ELSE HeightOf(p)

\* Panel x has to come before panel y: larger area, or equal area and larger
\* extent, or equal in both and earlier in the caller's list
Precedes(x, y) ==
    \/ Area(x.poly) > Area(y.poly)
    \/ Area(x.poly) = Area(y.poly) /\ MaxExtent(x.poly) > MaxExtent(y.poly)
    \/ /\ Area(x.poly) = Area(y.poly) /\ MaxExtent(x.poly) = MaxExtent(y.poly)
       /\ x.id < y.id

\* C12: from the start of the run on, the list the loop walks is the
\* caller's list in stable descending order of (area, larger extent), in
\* every later state alike, and the panels recorded are the first idx of it.
C12_ProcessingOrder ==
    algo.pc # "idle" =>
        /\ Len(algo.patterns) = Len(twin.patterns)
        /\ \A i \in 1..Len(algo.patterns) :
              algo.patterns[i] = twin.patterns[algo.patterns[i].id]
        /\ \A i, j \in 1..Len(algo.patterns) :
              i < j => Precedes(algo.patterns[i], algo.patterns[j])
        /\ algo.pc \in {"loop", "done"} => FirstRecorded(algo, algo.idx)

\* A run has returned whose list held a panel of the area of another and
\* larger extent behind it, and two panels equal in both.
C12_Witness ==
    /\ algo.pc = "done" /\ ~cancel_requested
    /\ Len(algo.patterns) = 3
    /\ algo.patterns[1].id = 2 /\ algo.patterns[2].id = 1 /\ algo.patterns[3].id = 3
    /\ Area(algo.patterns[1].poly) = Area(algo.patterns[2].poly)
    /\ SortKey(algo.patterns[2]) = SortKey(algo.patterns[3])

\* Lines 213-259 with the break of lines 217-218 taken out: the compacted
\* first free position of orientation v of the panel being searched, in the
\* full scan order; << >> when the orientation has none.
Candidate(e, v) ==
    LET item  == e.patterns[e.idx + 1]
        vpoly == VariantOf(item, v)
        pos   == FirstFree(vpoly, e, StartY(item.style, e.fabric_width), Inf)
    IN IF v \in Fitting(item, e) /\ pos # << >>
       THEN << Gravity(Translate(vpoly, pos[1], pos[2]),
                       e.placed_polys, e.placed_bounds) >>
       ELSE << >>

\* What the loop over variants would hold at its end if no x were pruned
UnprunedBest(e) ==
    LET cands == {v \in 1..Len(variants) : Candidate(e, v) # << >>}
        least == {v \in cands : \A u \in cands :
                     Score(Candidate(e, v)[1]) <= Score(Candidate(e, u)[1])}
    IN IF cands = {} THEN << >> ELSE Candidate(e, MinOf(least))

\* C13: when all 8 orientations of a panel have been searched, the placement
\* about to be committed is the one of least score among the compacted first
\* free positions of all orientations in the full scan order, the earliest
\* orientation on ties: the one a search without pruning would commit.
C13_PruningHarmless ==
    (algo.pc = "record" /\ SearchedAll(algo)) =>
        algo.best_placement = UnprunedBest(algo)

\* Lines 214-235: the positions <<x, y>> at which the search for orientation
\* v of the panel being searched builds a candidate and tests it: the scan
\* order, x outer and y inner, up to and with the first free position.
TestedPositions(e, v) ==
    LET item    == e.patterns[e.idx + 1]
        vpoly   == VariantOf(item, v)
        start_y == StartY(item.style, e.fabric_width)
        yc      == YCandidates(start_y, e.fabric_width, HeightOf(vpoly))
        xs      == ScannedXi(e.max_length, WidthOf(vpoly), e.best_score)
        IsFree(xi, k) == ~Conflict(Translate(vpoly, xi * step, yc[k]),
                                   e.placed_polys, e.placed_bounds)
        Before(xi, k) == {q \in xs \X (1..Len(yc)) :
                             q[1] < xi \/ (q[1] = xi /\ q[2] < k)}
    IN IF v \notin Fitting(item, e) THEN {}
       ELSE { << q[1] * step, yc[q[2]] >> :
                q \in {r \in xs \X (1..Len(yc)) :
                          \A b \in Before(r[1], r[2]) : ~IsFree(b[1], b[2])} }

\* C14: every position at which the orientation about to be searched gets a
\* candidate built and tested is on the 3 cm grid and keeps the bounding box
\* of the orientation inside the sheet.
C14_TestedInSheet ==
    (algo.pc = "variants" /\ algo.vi <= Len(variants)) =>
        LET vpoly == VariantOf(algo.patterns[algo.idx + 1], algo.vi)
        IN \A pos \in TestedPositions(algo, algo.vi) :
              /\ pos[1] % step = 0 /\ pos[1] >= 0
              /\ pos[1] + WidthOf(vpoly) <= algo.max_length
              /\ pos[2] % step = 0 /\ pos[2] >= 0
              /\ pos[2] + HeightOf(vpoly) <= algo.fabric_width

\* The members of a set of numbers in increasing order
Ascending(S) ==
    [k \in 1..Cardinality(S) |->
        CHOOSE y \in S : Cardinality({z \in S : z < y}) = k - 1]

\* The grid positions y with y + h <= fabric_width
GridY(fabric_width, h) ==
    {y \in 0..fabric_width : y % step = 0 /\ y + h <= fabric_width}

\* C15: for a panel of a style outside lane A, the y scan of the orientation
\* about to be searched is the grid positions y <= fabric_width - h, each
\* once: those from the grid position of the half-height on in increasing
\* order, then those below it in increasing order.
C15_LaneBScan ==
    (/\ algo.pc = "variants" /\ algo.vi <= Len(variants)
     /\ ~LaneA(algo.patterns[algo.idx + 1].style)
     /\ algo.vi \in Fitting(algo.patterns[algo.idx + 1], algo)) =>
        LET item    == algo.patterns[algo.idx + 1]
            h       == HeightOf(VariantOf(item, algo.vi))
            start_y == StartY(item.style, algo.fabric_width)
            half    == (start_y \div step) * step
            grid    == GridY(algo.fabric_width, h)
        IN YCandidates(start_y, algo.fabric_width, h) =
              Ascending({y \in grid : y >= half})
                  \o Ascending({y \in grid : y < half})

\* Lines 225-235: the raw candidate of orientation v of the panel being
\* searched, at its first free position under the pruning of the run;
\* << >> when the scan finds none.
RawCandidate(e, v) ==
    LET item  == e.patterns[e.idx + 1]
        vpoly == VariantOf(item, v)
        pos   == FirstFree(vpoly, e, StartY(item.style, e.fabric_width),
                           e.best_score)
    IN IF v \in Fitting(item, e) /\ pos # << >>
       THEN << Translate(vpoly, pos[1], pos[2]) >>
       ELSE << >>

\* Lines 241-247 and 251-257: the shift of cp by (dx, dy) is not taken
Inadmissible(cp, dx, dy, e) ==
    LET t == Translate(cp, dx, dy)
    IN \/ Bounds(t)[1] < 0
       \/ Bounds(t)[2] < 0
       \/ Conflict(t, e.placed_polys, e.placed_bounds)

\* cp is where no shift down and no shift left by 0.5 cm is taken
AtRest(cp, e) ==
    /\ ~Conflict(cp, e.placed_polys, e.placed_bounds)
    /\ Inadmissible(cp, 0, 0 - micro, e)
    /\ Inadmissible(cp, 0 - micro, 0, e)

\* C16: the compacted candidate of the orientation about to be searched is
\* free of conflict and can be shifted neither down nor left by 0.5 cm; its
\* xmin, ymin, xmax and score are at most those of the raw candidate; and
\* the best placement held during the search is such a resting candidate.
C16_CompactionFixedPoint ==
    algo.pc \in {"variants", "record"} =>
        /\ algo.best_placement # << >> => AtRest(algo.best_placement[1], algo)
        /\ (algo.vi <= Len(variants) /\ RawCandidate(algo, algo.vi) # << >>) =>
              LET raw == RawCandidate(algo, algo.vi)[1]
                  cp  == Gravity(raw, algo.placed_polys, algo.placed_bounds)
              IN /\ AtRest(cp, algo)
                 /\ Bounds(cp)[1] <= Bounds(raw)[1]
                 /\ Bounds(cp)[2] <= Bounds(raw)[2]
                 /\ Bounds(cp)[3] <= Bounds(raw)[3]
                 /\ Score(cp) <= Score(raw)
                 /\ \E dx, dy \in 0..(Bounds(raw)[1] + Bounds(raw)[2]) :
                       cp = Translate(raw, 0 - dx, 0 - dy)

\* A search holds a best placement that compaction has brought both left and
\* down from a raw position among accepted placements.
C16_Witness ==
    /\ algo.pc = "record" /\ SearchedAll(algo)
    /\ Len(algo.placed_polys) >= 2
    /\ algo.best_placement # << >>
    /\ Bounds(algo.best_placement[1])[1] % step # 0
    /\ Bounds(algo.best_placement[1])[2] % step # 0
    /\ AtRest(algo.best_placement[1], algo)

\* The passes of the compaction of the raw candidate of the orientation about
\* to be searched number at most x0 + y0 (in steps of 0.5 cm) plus one, every
\* pass but the last lowers xmin + ymin by at least 0.5 cm, and xmin and ymin
\* stay at or above 0.
PassesBounded ==
    (/\ algo.pc = "variants" /\ algo.vi <= Len(variants)
     /\ RawCandidate(algo, algo.vi) # << >>) =>
        LET raw == RawCandidate(algo, algo.vi)[1]
            tr  == GravityTrace(raw, algo.placed_polys, algo.placed_bounds)
            Sum(cp) == Bounds(cp)[1] + Bounds(cp)[2]
        IN /\ Len(tr) * micro <= Sum(raw) + micro
           /\ tr[Len(tr)] = Gravity(raw, algo.placed_polys, algo.placed_bounds)
           /\ \A k \in 1..Len(tr) :
                 /\ Bounds(tr[k])[1] >= 0 /\ Bounds(tr[k])[2] >= 0
                 /\ k < Len(tr) => Sum(tr[k + 1]) + micro <= Sum(tr[k])

\* Lines 187-277: the most steps a run at e still has before it has
\* returned: per panel the taking up, one step per orientation and the
\* recording; then the return.
StepsLeft(e) ==
    LET per  == Len(variants) + 2
        rest == (e.total - e.idx - 1) * per + 1
    IN CASE e.pc = "idle"     -> Len(e.patterns) * per + 2
         [] e.pc = "loop"     -> (e.total - e.idx) * per + 1
         [] e.pc = "variants" -> rest + 1 + (Len(variants) + 1 - e.vi)
         [] e.pc = "record"   -> rest + 1
         [] OTHER             -> 0

\* Lines 187-277: a run that has not returned is at a point from which one
\* of its steps can be taken, whatever the cancel flag reads: at the head of
\* the loop with a panel left or none, in the loop over the orientations with
\* one left to search, or about to record the panel taken up.
HasNextStep(e) ==
    /\ e.total = Len(e.patterns)
    /\ e.pc = "loop" => e.idx <= e.total
    /\ e.pc = "variants" => e.idx < e.total /\ e.vi <= Len(variants)
    /\ e.pc = "record" => e.idx < e.total

\* C17: the compaction loop ends for every raw candidate in every sheet
\* state, within (x0 + y0) / 0.5 + 1 passes; and a run returns: until it has,
\* it always has a next step, and every step of it lowers the number of
\* steps it can still take, which is never negative.
C17_Terminates ==
    /\ [](PassesBounded /\ StepsLeft(algo) >= 0)
    /\ [](algo.pc \notin {"idle", "done"} => HasNextStep(algo))
    /\ [][algo' # algo => StepsLeft(algo') < StepsLeft(algo)]_vars

\* A raw candidate among accepted placements whose compaction takes more than
\* three passes
C17_Witness ==
    /\ algo.pc = "variants" /\ algo.vi <= Len(variants)
    /\ Len(algo.placed_polys) >= 1
    /\ RawCandidate(algo, algo.vi) # << >>
    /\ Len(GravityTrace(RawCandidate(algo, algo.vi)[1],
                        algo.placed_polys, algo.placed_bounds)) > 3

\* s is an initial stretch of t, entry by entry
IsPrefix(s, t) == Len(s) <= Len(t) /\ SubSeq(t, 1, Len(s)) = s

\* The placed lists handed to successive progress callbacks each begin with
\* the one before, the placed list of the instance begins with the last of
\* them, and no panel recorded as unplaced is among the placed.
SnapshotsGrow ==
    /\ \A k \in 1..(Len(algo.calls) - 1) :
          IsPrefix(algo.calls[k].placed, algo.calls[k + 1].placed)
    /\ Len(algo.calls) > 0 =>
          IsPrefix(algo.calls[Len(algo.calls)].placed, algo.placed_items)
    /\ \A i \in 1..Len(algo.unplaced_items) :
          Places(algo.placed_items, algo.unplaced_items[i].id) = {}

\* C18: during a run every step leaves the placed list, the unplaced list and
\* the accepted polygons as they were or with entries appended, earlier
\* entries unchanged; the placed lists the progress callbacks are handed grow
\* in the same way; a panel recorded as unplaced is never placed later.
C18_AppendOnly ==
    /\ []SnapshotsGrow
    /\ [][/\ IsPrefix(algo.placed_items, algo'.placed_items)
          /\ IsPrefix(algo.unplaced_items, algo'.unplaced_items)
          /\ algo.pc # "idle" => IsPrefix(algo.placed_polys, algo'.placed_polys)
          /\ Len(algo'.placed_items) + Len(algo'.unplaced_items)
                <= Recorded(algo) + 1]_vars

\* A run with a callback has returned after three reports, with two panels
\* placed and the panel recorded between them unplaced.
C18_Witness ==
    /\ algo.pc = "done" /\ Len(algo.calls) = 3
    /\ Len(algo.calls[1].placed) = 1
    /\ Len(algo.calls[2].placed) = 1
    /\ Len(algo.calls[3].placed) = 2
    /\ Len(algo.unplaced_items) = 1

\* The ids of the panels recorded by e, placed or unplaced
RecordedIds(e) ==
    {e.placed_items[i].id : i \in 1..Len(e.placed_items)}
        \cup {e.unplaced_items[i].id : i \in 1..Len(e.unplaced_items)}

====
